---------------------------- MODULE Spec2Model ----------------------------
(***************************************************************************)
(* Model of trading_bot.py: the Binance Futures REST client                *)
(* (BinanceFuturesREST), the bot wrapper (TradingBot) and the order        *)
(* workflow (main).                                                        *)
(*                                                                         *)
(* Python values are tagged tuples, so that None, numbers and strings can   *)
(* sit in the same mapping: None, Num(n), Str(s).  A dict is the sequence   *)
(* of its <<key, value>> pairs in insertion order.                          *)
(***************************************************************************)
EXTENDS Integers, Sequences, FiniteSets, TLC

VARIABLES
    args,    \* the argparse namespace returned by parse_args()
    env,     \* the process environment after load_dotenv()
    pc,      \* position of main()
    bot,     \* the TradingBot (its client's key and secret), or NoBot
    result,  \* main's local `result`
    wire,    \* the HTTP requests sent so far, oldest first
    log,     \* the records handed to the logger, oldest first
    out,     \* what print() wrote, oldest first
    clock,   \* time.time() * 1000
    dicts,   \* mappings owned by a direct caller of the client
    calls    \* number of _request calls made by that caller

vars == <<args, env, pc, bot, result, wire, log, out, clock, dicts, calls>>

---------------------------------------------------------------------------
(* Bounds of the model *)

MaxCalls == 2

---------------------------------------------------------------------------
(* Python values *)

None == <<"none">>
Num(n) == <<"num", n>>
Str(s) == <<"str", s>>
List == <<"list">>
Dict(pairs) == <<"dict", pairs>>

IsNone(v) == v[1] = "none"
IsDict(v) == v[1] = "dict"

\* bool(v): None, 0, "" and empty containers are false
Truthy(v) ==
    CASE v[1] = "none" -> FALSE
      [] v[1] = "num" -> v[2] # 0
      [] v[1] = "str" -> v[2] # ""
      [] v[1] = "dict" -> v[2] # <<>>
      [] v[1] = "list" -> FALSE
      [] OTHER -> TRUE

\* a or b
Or(a, b) == IF Truthy(a) THEN a ELSE b

\* str.upper() on the symbols and sides of the model
upper(s) ==
    CASE s = "btcusdt" -> "BTCUSDT"
      [] s = "BtcUsdt" -> "BTCUSDT"
      [] OTHER -> s

---------------------------------------------------------------------------
(* dict operations on sequences of <<key, value>> pairs *)

Keys(d) == {d[i][1] : i \in 1..Len(d)}
Has(d, k) == k \in Keys(d)
Index(d, k) == CHOOSE i \in 1..Len(d) : d[i][1] = k

\* d.get(k)
Get(d, k) == IF Has(d, k) THEN d[Index(d, k)][2] ELSE None

\* d[k] = v : an existing key keeps its place, a new one goes last
Set(d, k, v) ==
    IF Has(d, k) THEN [d EXCEPT ![Index(d, k)] = <<k, v>>]
    ELSE Append(d, <<k, v>>)

---------------------------------------------------------------------------
(* Inputs: the command line, the environment, the exchange's answers *)

TESTNET_BASE == "https://testnet.binancefuture.com"

Symbols == {"btcusdt", "BTCUSDT"}
Sides == {"BUY", "SELL"}
Types == {"MARKET", "LIMIT", "STOP"}
\* --time-in-force: the default and one of the other choices
TimesInForce == {"GTC", "IOC"}
Quantities == {Num(-1), Num(0), Num(1)}
\* an optional float option: absent, or any float the user typed
OptPrices == {None, Num(-1), Num(0), Num(2)}

\* the namespaces parse_args() can return (the key may come from --api-key,
\* the secret is left to the environment)
ArgSpace ==
    [api_key : {None, Str("ck")},
     api_secret : {None},
     symbol : Symbols,
     side : Sides,
     type : Types,
     quantity : Quantities,
     price : OptPrices,
     stop_price : OptPrices,
     time_in_force : TimesInForce]

\* os.getenv gives None for an unset variable, "" for an empty one
EnvSpace ==
    [BINANCE_API_KEY : {None, Str("ek")},
     BINANCE_API_SECRET : {Str(""), Str("es")}]

NotJson == <<"notjson">>

\* bodies of an HTTP answer, as r.json() decodes them (NotJson: it raises)
Bodies ==
    {NotJson,
     List,
     Dict(<<>>),
     Dict(<<<<"orderId", None>>>>),
     Dict(<<<<"orderId", Num(0)>>>>),
     Dict(<<<<"orderId", Num(7)>>, <<"status", Str("NEW")>>>>)}

NetworkError == [kind |-> "neterr", status |-> 0, body |-> NotJson]
Http(s, b) == [kind |-> "http", status |-> s, body |-> b]

\* what a call on the session can end with: a requests.RequestException
\* raised by the transport (DNS, refused, timeout), or an HTTP answer
Responses ==
    {NetworkError}
    \cup {Http(200, b) : b \in Bodies}
    \cup {Http(300, Dict(<<<<"orderId", Num(7)>>, <<"status", Str("NEW")>>>>)),
          Http(400, Dict(<<>>)),
          Http(503, NotJson)}

---------------------------------------------------------------------------
(* BinanceFuturesREST *)

NoBot == [api_key |-> None, api_secret |-> None, built |-> FALSE]

\* BinanceFuturesREST.__init__ (through TradingBot.__init__)
BinanceFuturesREST(api_key, api_secret) ==
    [api_key |-> api_key, api_secret |-> api_secret, built |-> TRUE]

\* str(v) as urlencode takes it
ToStr(v) ==
    CASE v[1] = "none" -> <<"text", "None">>
      [] v[1] = "str" -> <<"text", v[2]>>
      [] v[1] = "num" -> <<"decimal", v[2]>>
      [] OTHER -> <<"text", v>>

\* urlencode(params, doseq=True): key=value per pair, in the dict's order
urlencode(params) ==
    [i \in 1..Len(params) |-> <<params[i][1], "=", ToStr(params[i][2])>>]

\* _sign returning the key instead of the digest
Sign_Plain(client, params) == client.api_secret

\* _sign: the hex digest of HMAC-SHA256(api_secret, urlencode(params))
Sign(client, params) == <<"hmac", client.api_secret, urlencode(params)>>

\* _request, line 66: params = params or {}
ParamsOrEmpty(params) == IF Truthy(params) THEN params[2] ELSE <<>>

\* _request, line 68: the mapping _sign is given
Stamped(params, now) == Set(ParamsOrEmpty(params), "timestamp", Num(now))

\* _request, lines 66-69: the mapping that is sent
Prepared(client, params, signed, now) ==
    IF signed
    THEN Set(Stamped(params, now), "signature",
             Sign(client, Stamped(params, now)))
    ELSE ParamsOrEmpty(params)

\* _request, lines 72-76: the request put on the wire; signedOver is what
\* _sign was given (<<>> for an unsigned request)
Request(client, method, path, params, signed, now) ==
    [method |-> IF method = "GET" THEN "GET" ELSE "POST",
     url |-> <<TESTNET_BASE, path>>,
     headers |-> <<<<"X-MBX-APIKEY", client.api_key>>>>,
     params |-> Prepared(client, params, signed, now),
     signed |-> signed,
     signedOver |-> IF signed THEN Stamped(params, now) ELSE <<>>]

Entry(level, msg, data) == [level |-> level, msg |-> msg, data |-> data]

\* _request, line 72
RequestLog(req) ==
    <<Entry("DEBUG", "REQUEST", <<req.method, req.url, req.params>>)>>

\* raise_for_status(): HTTPError for a 4xx or 5xx status
RaisesForStatus(resp) == resp.status >= 400 /\ resp.status < 600

\* _request, lines 74-82: TRUE when the call raises: the session call does,
\* raise_for_status() does, or r.json() does
RequestRaises(resp) ==
    \/ resp.kind = "neterr"
    \/ RaisesForStatus(resp)
    \/ resp.body = NotJson

\* the exception classes that occur, all of them subclasses of Exception
RequestExceptions == {"ConnectionError", "HTTPError", "JSONDecodeError"}
Exceptions == RequestExceptions \cup {"ValueError", "AttributeError"}

\* _request, lines 74-79: the class of the exception a raising call raises.
\* jsonErr: the JSON decoding error of the installed requests is a
\* RequestException (it is since 2.27, and a plain ValueError before)
Raised(resp, jsonErr) ==
    IF resp.kind = "neterr" THEN "ConnectionError"
    ELSE IF RaisesForStatus(resp) THEN "HTTPError"
    ELSE IF jsonErr THEN "JSONDecodeError" ELSE "ValueError"

\* str(e): the transport's exceptions and HTTPError name the URL with its
\* query string, the others do not
Message(exc, req, resp) ==
    IF exc \in {"ConnectionError", "HTTPError"}
    THEN <<exc, resp.status, req.url, req.params>>
    ELSE <<exc>>

\* _request, lines 77-82: what the call logs once the session call ended;
\* line 80 catches the RequestExceptions only
ResponseLog(req, resp, jsonErr) ==
    (IF resp.kind = "neterr" THEN <<>>
     ELSE <<Entry("DEBUG", "RESPONSE", <<resp.status, resp.body>>)>>)
    \o (IF RequestRaises(resp) /\ Raised(resp, jsonErr) \in RequestExceptions
        THEN <<Entry("ERROR", "HTTP request failed",
                     Message(Raised(resp, jsonErr), req, resp))>>
        ELSE <<>>)

\* place_order(**params): the keyword arguments become a fresh dict
place_order(client, params, now) ==
    Request(client, "POST", "/fapi/v1/order", Dict(params), TRUE, now)

\* get_order(symbol, orderId)
get_order(client, symbol, orderId, now) ==
    Request(client, "GET", "/fapi/v1/order",
            Dict(<<<<"symbol", Str(upper(symbol))>>, <<"orderId", orderId>>>>),
            TRUE, now)

---------------------------------------------------------------------------
(* TradingBot *)

place_market_order(symbol, side, quantity) ==
    <<<<"symbol", Str(upper(symbol))>>, <<"side", Str(upper(side))>>,
      <<"type", Str("MARKET")>>, <<"quantity", quantity>>>>

place_limit_order(symbol, side, quantity, price, tif) ==
    <<<<"symbol", Str(upper(symbol))>>, <<"side", Str(upper(side))>>,
      <<"type", Str("LIMIT")>>, <<"quantity", quantity>>,
      <<"price", price>>, <<"timeInForce", Str(tif)>>>>

\* place_stop_order with the trigger and the limit price exchanged
place_stop_order_Swapped(symbol, side, quantity, stop_price, limit_price, tif) ==
    <<<<"symbol", Str(upper(symbol))>>, <<"side", Str(upper(side))>>,
      <<"type", Str("STOP")>>, <<"quantity", quantity>>,
      <<"stopPrice", limit_price>>, <<"price", stop_price>>,
      <<"timeInForce", Str(tif)>>>>

place_stop_order(symbol, side, quantity, stop_price, limit_price, tif) ==
    <<<<"symbol", Str(upper(symbol))>>, <<"side", Str(upper(side))>>,
      <<"type", Str("STOP")>>, <<"quantity", quantity>>,
      <<"stopPrice", stop_price>>, <<"price", limit_price>>,
      <<"timeInForce", Str(tif)>>>>

---------------------------------------------------------------------------
(* main *)

\* main, lines 131-132: CLI value, else the environment's
api_key == Or(args.api_key, env.BINANCE_API_KEY)
api_secret == Or(args.api_secret, env.BINANCE_API_SECRET)

\* ValidationError with the STOP branch testing the stop price only
ValidationError_StopPriceOnly(a) ==
    CASE a.type = "MARKET" -> ""
      [] a.type = "LIMIT" ->
            IF ~Truthy(a.price) THEN "LIMIT order requires --price" ELSE ""
      [] a.type = "STOP" ->
            IF ~Truthy(a.stop_price)
            THEN "STOP order requires --stop-price and --price" ELSE ""
      [] OTHER -> "Unsupported order type"

\* main, lines 141-155: the message of the validation error main logs for
\* these arguments, "" when it goes on to place the order
ValidationError(a) ==
    CASE a.type = "MARKET" -> ""
      [] a.type = "LIMIT" ->
            IF ~Truthy(a.price) THEN "LIMIT order requires --price" ELSE ""
      [] a.type = "STOP" ->
            IF ~Truthy(a.stop_price) \/ ~Truthy(a.price)
            THEN "STOP order requires --stop-price and --price" ELSE ""
      [] OTHER -> "Unsupported order type"

\* main, lines 142, 147, 152: the keyword arguments given to place_order
OrderParams(a) ==
    CASE a.type = "MARKET" ->
            place_market_order(a.symbol, a.side, a.quantity)
      [] a.type = "LIMIT" ->
            place_limit_order(a.symbol, a.side, a.quantity, a.price,
                              a.time_in_force)
      [] OTHER ->
            place_stop_order(a.symbol, a.side, a.quantity, a.stop_price,
                             a.price, a.time_in_force)

\* HasOrderId without the test of the orderId
HasOrderId_AnyDict(r) == IsDict(r)

\* main, line 160
HasOrderId(r) == IsDict(r) /\ Truthy(Get(r[2], "orderId"))

\* except Exception narrowed to the exceptions of requests
Catches_RequestOnly(exc) == exc \in RequestExceptions

\* main, line 164: except Exception
Catches(exc) == exc \in Exceptions

\* main, lines 164-165: where main is after an exception in the try block,
\* and what it logs
AfterRaise(exc) == IF Catches(exc) THEN "returned" ELSE "raised"
OrderFailed(exc, message) ==
    IF Catches(exc) THEN <<Entry("ERROR", "Order failed", message)>> ELSE <<>>

Init ==
    /\ args \in ArgSpace
    /\ env \in EnvSpace
    /\ pc = "start"
    /\ bot = NoBot
    /\ result = None
    /\ wire = <<>>
    /\ log = <<>>
    /\ out = <<>>
    /\ clock = 0
    /\ dicts = <<>>
    /\ calls = 0

\* ResolveCredentials with `and` for `or` in the test of line 134
ResolveCredentials_And ==
    /\ pc = "start"
    /\ IF ~Truthy(api_key) /\ ~Truthy(api_secret)
       THEN /\ log' = log \o <<Entry("ERROR",
                   "API key and secret must be provided (CLI or .env).", <<>>)>>
            /\ pc' = "returned"
            /\ bot' = bot
       ELSE /\ bot' = BinanceFuturesREST(api_key, api_secret)
            /\ log' = log \o <<Entry("INFO", "TradingBot initialized",
                                     <<TESTNET_BASE>>)>>
            /\ pc' = "try"
    /\ UNCHANGED <<args, env, result, wire, out, clock, dicts, calls>>

\* main, lines 131-138: resolve the credentials, build the bot
ResolveCredentials ==
    /\ pc = "start"
    /\ IF ~Truthy(api_key) \/ ~Truthy(api_secret)
       THEN /\ log' = log \o <<Entry("ERROR",
                   "API key and secret must be provided (CLI or .env).", <<>>)>>
            /\ pc' = "returned"
            /\ bot' = bot
       ELSE /\ bot' = BinanceFuturesREST(api_key, api_secret)
            /\ log' = log \o <<Entry("INFO", "TradingBot initialized",
                                     <<TESTNET_BASE>>)>>
            /\ pc' = "try"
    /\ UNCHANGED <<args, env, result, wire, out, clock, dicts, calls>>

\* main, lines 141-155, into _request up to the session call (line 76)
Dispatch ==
    /\ pc = "try"
    /\ IF ValidationError(args) # ""
       THEN /\ log' = log \o <<Entry("ERROR", ValidationError(args), <<>>)>>
            /\ pc' = "returned"
            /\ wire' = wire
       ELSE /\ wire' = Append(wire, place_order(bot, OrderParams(args), clock))
            /\ log' = log \o RequestLog(place_order(bot, OrderParams(args), clock))
            /\ pc' = "placing"
    /\ UNCHANGED <<args, env, bot, result, out, clock, dicts, calls>>

\* PlacementResponse with a failed call sent again
PlacementResponse_Retry(resp, jsonErr) ==
    /\ pc = "placing"
    /\ clock' = clock + 1
    /\ IF RequestRaises(resp)
       THEN /\ log' = log \o ResponseLog(wire[Len(wire)], resp, jsonErr)
            /\ pc' = "try"
            /\ result' = result
       ELSE /\ log' = log \o ResponseLog(wire[Len(wire)], resp, jsonErr)
            /\ result' = resp.body
            /\ pc' = "placed"
    /\ UNCHANGED <<args, env, bot, wire, out, dicts, calls>>

\* _request, lines 76-82 for the placement, and main's handler (164-165);
\* the round trip takes time
PlacementResponse(resp, jsonErr) ==
    /\ pc = "placing"
    /\ clock' = clock + 1
    /\ IF RequestRaises(resp)
       THEN /\ log' = log \o ResponseLog(wire[Len(wire)], resp, jsonErr)
                         \o OrderFailed(Raised(resp, jsonErr),
                               Message(Raised(resp, jsonErr), wire[Len(wire)], resp))
            /\ pc' = AfterRaise(Raised(resp, jsonErr))
            /\ result' = result
       ELSE /\ log' = log \o ResponseLog(wire[Len(wire)], resp, jsonErr)
            /\ result' = resp.body
            /\ pc' = "placed"
    /\ UNCHANGED <<args, env, bot, wire, out, dicts, calls>>

\* main going on without printing the result
PrintResult_Silent ==
    /\ pc = "placed"
    /\ pc' = "printed"
    /\ UNCHANGED <<args, env, bot, result, wire, log, out, clock, dicts, calls>>

\* main, lines 157-158
PrintResult ==
    /\ pc = "placed"
    /\ out' = out \o <<<<"----- ORDER RESULT -----">>, <<"result", result>>>>
    /\ pc' = "printed"
    /\ UNCHANGED <<args, env, bot, result, wire, log, clock, dicts, calls>>

\* main, lines 160-161, into _request up to the session call (line 74)
ConfirmOrFinish ==
    /\ pc = "printed"
    /\ IF HasOrderId(result)
       THEN /\ wire' = Append(wire, get_order(bot, args.symbol,
                                              Get(result[2], "orderId"), clock))
            /\ log' = log \o RequestLog(get_order(bot, args.symbol,
                                              Get(result[2], "orderId"), clock))
            /\ pc' = "confirming"
       ELSE /\ pc' = "returned"
            /\ UNCHANGED <<wire, log>>
    /\ UNCHANGED <<args, env, bot, result, out, clock, dicts, calls>>

\* the status call without a timeout, never answered
StatusResponse_Hang(resp, jsonErr) ==
    /\ pc = "confirming"
    /\ UNCHANGED vars

\* _request, lines 74-82 for the status query, main line 162 and main's
\* handler: status.get raises AttributeError when status is no dict
StatusResponse(resp, jsonErr) ==
    /\ pc = "confirming"
    /\ clock' = clock + 1
    /\ IF RequestRaises(resp)
       THEN /\ log' = log \o ResponseLog(wire[Len(wire)], resp, jsonErr)
                         \o OrderFailed(Raised(resp, jsonErr),
                               Message(Raised(resp, jsonErr), wire[Len(wire)], resp))
            /\ pc' = AfterRaise(Raised(resp, jsonErr))
            /\ out' = out
       ELSE IF ~IsDict(resp.body)
       THEN /\ log' = log \o ResponseLog(wire[Len(wire)], resp, jsonErr)
                         \o OrderFailed("AttributeError", <<"AttributeError">>)
            /\ pc' = AfterRaise("AttributeError")
            /\ out' = out
       ELSE /\ log' = log \o ResponseLog(wire[Len(wire)], resp, jsonErr)
            /\ pc' = "returned"
            /\ out' = Append(out, <<"Order Status:", Get(resp.body[2], "status")>>)
    /\ UNCHANGED <<args, env, bot, result, wire, dicts, calls>>

Next ==
    \/ ResolveCredentials
    \/ Dispatch
    \/ \E resp \in Responses, jsonErr \in BOOLEAN :
          PlacementResponse(resp, jsonErr)
    \/ PrintResult
    \/ ConfirmOrFinish
    \/ \E resp \in Responses, jsonErr \in BOOLEAN :
          StatusResponse(resp, jsonErr)

Spec == Init /\ [][Next]_vars


\* main runs to its end: straight-line code, in which every session call
\* ends within its timeout of 10 seconds (lines 74 and 76)
FairSpec == Spec /\ WF_vars(Next)

---------------------------------------------------------------------------
(* A direct caller of the client: it owns one mapping and hands it, or no  *)
(* mapping, to _request, any number of times up to MaxCalls.               *)

CallerDicts ==
    {<<>>,
     <<<<"symbol", Str("BTCUSDT")>>>>,
     <<<<"symbol", Str("BTCUSDT")>>, <<"orderId", Num(7)>>>>}

ClientResponses == {NetworkError, Http(200, Dict(<<>>)), Http(400, Dict(<<>>))}

IdleArgs ==
    [api_key |-> None, api_secret |-> None, symbol |-> "BTCUSDT",
     side |-> "BUY", type |-> "MARKET", quantity |-> Num(1), price |-> None,
     stop_price |-> None, time_in_force |-> "GTC"]

ClientInit ==
    /\ args = IdleArgs
    /\ env = [BINANCE_API_KEY |-> None, BINANCE_API_SECRET |-> Str("")]
    /\ pc = "client"
    /\ bot = BinanceFuturesREST(Str("ck"), Str("cs"))
    /\ result = None
    /\ wire = <<>>
    /\ log = <<>>
    /\ out = <<>>
    /\ clock = 0
    /\ dicts \in CallerDicts
    /\ calls = 0

\* _request, lines 66-69: the caller's mapping once the call has returned.
\* `params or {}` is the caller's own object unless that is empty or None.
CallerAfter(client, params, signed, now) ==
    IF Truthy(params) THEN Prepared(client, params, signed, now)
    ELSE IF IsNone(params) THEN <<>> ELSE params[2]

\* one call of _request(method, path, params, signed), lines 64-82
ClientRequest(method, params, signed, resp, jsonErr) ==
    /\ pc = "client"
    /\ calls < MaxCalls
    /\ calls' = calls + 1
    /\ wire' = Append(wire, Request(bot, method, "/fapi/v1/order", params,
                                    signed, clock))
    /\ log' = log \o RequestLog(Request(bot, method, "/fapi/v1/order", params,
                                        signed, clock))
                  \o ResponseLog(Request(bot, method, "/fapi/v1/order", params,
                                         signed, clock), resp, jsonErr)
    /\ dicts' = IF IsNone(params) THEN dicts
                ELSE CallerAfter(bot, params, signed, clock)
    /\ result' = IF RequestRaises(resp) THEN None ELSE resp.body
    /\ clock' = clock + 1
    /\ UNCHANGED <<args, env, pc, bot, out>>

ClientNext ==
    \E method \in {"GET", "POST"}, params \in {None, Dict(dicts)},
       signed \in BOOLEAN, resp \in ClientResponses, jsonErr \in BOOLEAN :
        ClientRequest(method, params, signed, resp, jsonErr)

ClientSpec == ClientInit /\ [][ClientNext]_vars

---------------------------------------------------------------------------
(* Vocabulary of the properties *)

\* the errors main itself logs (logger.error in main)
MainErrors ==
    {"API key and secret must be provided (CLI or .env).",
     "LIMIT order requires --price",
     "STOP order requires --stop-price and --price",
     "Unsupported order type",
     "Order failed"}

MainLoggedError ==
    \E i \in 1..Len(log) : log[i].level = "ERROR" /\ log[i].msg \in MainErrors

Returned == pc = "returned"
\* the workflow's terminal states: main returned, having logged an error of
\* its own (Failed) or none (Done)
Failed == Returned /\ MainLoggedError
Done == Returned /\ ~MainLoggedError

Sent(method) == {i \in 1..Len(wire) : wire[i].method = method}

\* the log record of the request of this method, and the record after it,
\* which is what _request logged when the session call ended
Asked(method) ==
    {i \in 1..Len(log) : log[i].msg = "REQUEST" /\ log[i].data[1] = method}
Answered(method) == \E i \in Asked(method) : i < Len(log)
Answer(method) == log[(CHOOSE i \in Asked(method) : TRUE) + 1]

\* the session call raised (network-level failure)
NetworkFailed(method) ==
    Answered(method) /\ Answer(method).msg = "HTTP request failed"
\* the session call returned an HTTP answer with this status and body
AnsweredWith(method, statuses, bodies) ==
    /\ Answered(method)
    /\ Answer(method).msg = "RESPONSE"
    /\ Answer(method).data[1] \in statuses
    /\ Answer(method).data[2] \in bodies

\* the call failed: a network-level failure or a 4xx/5xx answer
CallFailed(method) ==
    NetworkFailed(method) \/ AnsweredWith(method, 400..599, Bodies)

\* the mapping place_order was handed: what was signed, less the timestamp
Handed(req) == {req.signedOver[i] : i \in 1..Len(req.signedOver)}
                   \ {<<"timestamp", Get(req.signedOver, "timestamp")>>}

---------------------------------------------------------------------------
\* a LIMIT order given no price, a STOP order given no stop price or no price
MissingRequired(a) ==
    \/ a.type = "LIMIT" /\ IsNone(a.price)
    \/ a.type = "STOP" /\ (IsNone(a.stop_price) \/ IsNone(a.price))

\* the reference mapping of an order's kind, symbol in upper case
Reference(a) ==
    {<<"symbol", Str("BTCUSDT")>>, <<"side", Str(a.side)>>,
     <<"type", Str(a.type)>>, <<"quantity", a.quantity>>}
    \cup (IF a.type \in {"LIMIT", "STOP"}
          THEN {<<"price", a.price>>, <<"timeInForce", Str(a.time_in_force)>>}
          ELSE {})
    \cup (IF a.type = "STOP" THEN {<<"stopPrice", a.stop_price>>} ELSE {})

---------------------------------------------------------------------------
(* C1: a LIMIT order with no price, or a STOP order with no stop price or  *)
(* no price, never causes a request, and when main has returned it has     *)
(* logged the error (Failed).                                              *)
C1_MissingPriceAborts ==
    MissingRequired(args) => wire = <<>> /\ (Returned => Failed)

C1_Witness ==
    /\ Returned /\ bot.built /\ wire = <<>>
    /\ args.type = "STOP" /\ IsNone(args.price) /\ ~IsNone(args.stop_price)
    /\ log[Len(log)].msg = "STOP order requires --stop-price and --price"

(* C2: whenever the placement call got a non-2xx status or a network-level *)
(* failure, main ends in Failed and no status query (GET) is sent.         *)
C2_FailedPlacementFails ==
    (\/ NetworkFailed("POST")
     \/ AnsweredWith("POST", (100..599) \ (200..299), Bodies))
        => Sent("GET") = {} /\ (Returned => Failed)

(* C3: when the placement succeeded and the status query then fails, main  *)
(* still ends in Done: the failure is not logged as the order's failure.   *)
C3_StatusFailureNotFatal ==
    (Returned /\ Sent("GET") # {} /\ CallFailed("GET")) => Done

(* C4: once the placement returned an object with a non-null integer       *)
(* orderId (0 included), a GET for the order's symbol and that orderId is  *)
(* sent; once it returned an object without orderId, no GET is sent.       *)
C4_OrderIdConfirmed ==
    (pc \in {"confirming", "returned"} /\ IsDict(result)) =>
        /\ (Get(result[2], "orderId")[1] = "num") =>
              \E i \in Sent("GET") :
                  /\ Get(wire[i].params, "symbol") = Str("BTCUSDT")
                  /\ Get(wire[i].params, "orderId") = Get(result[2], "orderId")
        /\ ~Has(result[2], "orderId") => Sent("GET") = {}

C6_NonPositiveQuantityRejected ==
    args.quantity[2] <= 0 => Sent("POST") = {} /\ (Returned => Failed)

(* C7: every LIMIT or STOP request sent has price > 0, and every STOP      *)
(* request sent has stopPrice > 0.                                         *)
C7_SentPricesPositive ==
    \A i \in Sent("POST") :
        /\ Get(wire[i].params, "type") \in {Str("LIMIT"), Str("STOP")}
              => Get(wire[i].params, "price")[2] > 0
        /\ Get(wire[i].params, "type") = Str("STOP")
              => Get(wire[i].params, "stopPrice")[2] > 0

(* C8: the mapping handed to place_order is exactly the reference mapping  *)
(* of the order's kind, with the symbol in upper case.                     *)
C8_ParamsMatchReference ==
    \A i \in Sent("POST") :
        /\ Handed(wire[i]) = Reference(args)
        /\ Len(wire[i].signedOver) = Cardinality(Reference(args)) + 1

C8_Witness ==
    /\ Sent("POST") = {1}
    /\ args.type = "STOP" /\ args.symbol = "btcusdt"
    /\ args.stop_price = Num(2) /\ args.price = Num(-1)

(* C9: every signed request is signed over a mapping that holds the        *)
(* timestamp and no signature, whatever mapping the caller passes.         *)
C9_SignedWithoutSignature ==
    \A i \in 1..Len(wire) :
        wire[i].signed =>
            /\ Has(wire[i].signedOver, "timestamp")
            /\ ~Has(wire[i].signedOver, "signature")

(* C10: when the placement is answered 2xx with a JSON body that is no     *)
(* object, main ends in Failed; an object without orderId is accepted.     *)
C10_NonObjectBodyFails ==
    /\ (Returned /\ AnsweredWith("POST", 200..299, {List})) => Failed
    /\ (Returned /\ AnsweredWith("POST", 200..299, {Dict(<<>>)})) => Done


(* C11: no retries: in every run at most one POST and at most one GET are  *)
(* on the wire, whatever each call ended with, and once a call has failed  *)
(* no further request is sent.                                             *)
C11_NoRetries ==
    /\ Cardinality(Sent("POST")) <= 1
    /\ Cardinality(Sent("GET")) <= 1
    /\ Len(wire) <= 2
    /\ (CallFailed("POST") => Len(wire) = 1)

C11_Witness ==
    /\ Returned /\ Len(wire) = 2
    /\ CallFailed("POST") = FALSE /\ CallFailed("GET")

(* C12: once the bot is constructed main never raises to its caller:       *)
(* every exception of the try block, the AttributeError of a status        *)
(* response that is no object included, is caught, logged, and main        *)
(* returns.                                                                *)
C12_MainNeverRaises ==
    /\ pc # "raised"
    /\ (/\ Returned /\ bot.built
        /\ \/ MissingRequired(args)
           \/ CallFailed("POST")
           \/ CallFailed("GET")
           \/ AnsweredWith("GET", 0..399, {List}))
          => log[Len(log)].level = "ERROR" /\ log[Len(log)].msg \in MainErrors

C12_Witness ==
    /\ Returned /\ AnsweredWith("GET", 200..299, {List})
    /\ log[Len(log)].msg = "Order failed"
    /\ log[Len(log)].data = <<"AttributeError">>


\* the request parameters a log record shows: those of the REQUEST line, and
\* those in the URL an exception's message names
LoggedParams(e) ==
    IF e.msg = "REQUEST" THEN e.data[3]
    ELSE IF e.msg \in {"HTTP request failed", "Order failed"} /\ Len(e.data) = 4
    THEN e.data[4]
    ELSE <<>>

\* the body a log record or a printed line shows
ShownBody(e) ==
    IF e.msg = "RESPONSE" /\ IsDict(e.data[2]) THEN e.data[2][2] ELSE <<>>
PrintedBody(line) ==
    IF line[1] = "result" /\ IsDict(line[2]) THEN line[2][2]
    ELSE IF line[1] = "Order Status:" THEN <<<<"status", line[2]>>>>
    ELSE <<>>

\* the secret is the value of a field of this mapping
SecretIn(d) == \E i \in 1..Len(d) : d[i][2] = bot.api_secret

(* C13: no log record and no printed line holds the API secret: the        *)
(* parameters logged hold the timestamp and the signature derived from     *)
(* the secret, never the secret.                                           *)
C13_SecretNeverShown ==
    bot.built =>
        /\ \A i \in 1..Len(log) :
              ~SecretIn(LoggedParams(log[i])) /\ ~SecretIn(ShownBody(log[i]))
        /\ \A j \in 1..Len(out) : ~SecretIn(PrintedBody(out[j]))

C13_Witness ==
    /\ Returned /\ CallFailed("POST")
    /\ Has(LoggedParams(log[Len(log)]), "signature")
    /\ Get(LoggedParams(log[Len(log)]), "signature")[2] = bot.api_secret


(* C14: every run terminates: with each network call answered or failed    *)
(* within its timeout, main eventually reaches Done or Failed, and no step  *)
(* (no request, no change of state) follows either.                         *)
C14_Terminates ==
    /\ <>(Done \/ Failed)
    /\ [][~(Done \/ Failed)]_vars

\* Failed reached from ConfirmingStatus
C14_Witness ==
    /\ Failed /\ Sent("GET") # {} /\ CallFailed("GET")

\* Failed reached from Placing, and from Validating
C14_FailedFromPlacing == Failed /\ Len(wire) = 1 /\ CallFailed("POST")
C14_FailedFromValidating ==
    Failed /\ bot.built /\ wire = <<>> /\ ValidationError(args) # ""


\* the placement result is among the printed lines
ResultShown == \E j \in 1..Len(out) : out[j] = <<"result", result>>

(* C15: whenever the placement call returned, its raw result is printed    *)
(* before any status query is sent, whatever its shape; a status query     *)
(* that fails later leaves it printed.                                     *)
C15_ResultShownFirst ==
    /\ Sent("GET") # {} => ResultShown
    /\ (/\ pc \in {"printed", "confirming", "returned"}
        /\ AnsweredWith("POST", 0..399, Bodies \ {NotJson})) => ResultShown

C15_Witness ==
    /\ Returned /\ CallFailed("GET") /\ ResultShown /\ Len(out) = 2


(* C16: a signed _request leaves the mapping its caller passed unchanged:  *)
(* timestamp and signature go into a copy.                                 *)
C16_CallerMappingUnchanged == [][dicts' = dicts]_vars

(* C17: the parameters sent by a signed request are the signed parameters  *)
(* in the same order, followed by the signature as the last field.         *)
C17_SentIsSignedPlusSignature ==
    \A i \in 1..Len(wire) :
        wire[i].signed =>
            /\ Len(wire[i].params) = Len(wire[i].signedOver) + 1
            /\ SubSeq(wire[i].params, 1, Len(wire[i].signedOver))
                  = wire[i].signedOver
            /\ wire[i].params[Len(wire[i].params)][1] = "signature"

\* a value is given: neither None nor the empty string
Present(v) == v # None /\ v # Str("")

\* no key, or no secret, on the command line and in the environment
MissingCredential ==
    \/ ~Present(args.api_key) /\ ~Present(env.BINANCE_API_KEY)
    \/ ~Present(args.api_secret) /\ ~Present(env.BINANCE_API_SECRET)

(* C18: with the API key or the API secret missing or empty, the run ends  *)
(* without a client being constructed and without any request, whatever    *)
(* the order.                                                              *)
C18_NoCredentialsNoClient ==
    MissingCredential =>
        /\ ~bot.built
        /\ wire = <<>>
        /\ pc \in {"start", "returned"}

C18_Witness ==
    /\ Returned /\ ~bot.built /\ wire = <<>>
    /\ Present(args.api_key) /\ env.BINANCE_API_SECRET = Str("")
    /\ args.type = "MARKET"
    /\ log[Len(log)].msg = "API key and secret must be provided (CLI or .env)."

===========================================================================
